---- MODULE Spec2Model ----
(***************************************************************************)
(* A model of dowel.CsvOutput (src/src/dowel/csv_output.py): the writer's  *)
(* fields, the text of the log file character by character, and one action *)
(* per public method.  Text is a sequence of one-character strings, so the *)
(* csv module's quoting and parsing are computed, not assumed.             *)
(***************************************************************************)
EXTENDS Integers, Sequences, FiniteSets, TLC

\* ------------------------------------------------------------------ bounds
MaxCalls == 3        \* record() calls with a TabularInput per behaviour
header_length == 3   \* the header_length argument given to the constructor

\* ------------------------------------------------------------ vocabulary
\* None stands for Python's None where a string is expected (the
\* implementation argument, the exception of a call); an object that may be
\* None is a sequence of at most one element, NoObject or Object(x)
None == "None"
NoObject == <<>>
Object(x) == <<x>>
Modes == {None, "copy", "fixed_header_length"}
Fields == {<<"a">>, <<"b">>, <<"c", "c">>}
HashSeeds == {0, 1}

COMMA == ","
QUOTE == "\""
CR == "\r"
LF == "\n"
SPACE == " "

\* ------------------------------------------------------- sequence helpers
Range(s) == {s[i] : i \in 1..Len(s)}

Last(s) == s[Len(s)]

IsIn(x, s) == \E i \in 1..Len(s) : s[i] = x

RECURSIVE Concat(_)
Concat(ss) == IF ss = <<>> THEN <<>> ELSE Head(ss) \o Concat(Tail(ss))

\* str.join
RECURSIVE Join(_, _)
Join(sep, ss) ==
    IF ss = <<>> THEN <<>>
    ELSE IF Len(ss) = 1 THEN ss[1]
    ELSE ss[1] \o sep \o Join(sep, Tail(ss))

Take(s, n) == SubSeq(s, 1, IF n < Len(s) THEN n ELSE Len(s))

Spaces(n) == [i \in 1..n |-> SPACE]

\* '{:<{}}'.format(s, n): left-justify s in a field of n characters
LJust(s, n) == IF Len(s) >= n THEN s ELSE s \o Spaces(n - Len(s))

\* ------------------------------------------------ the TabularInput's dict
\* as_primitive_dict: an insertion-ordered mapping, here a sequence of
\* <<key, value>> pairs with distinct keys
Keys(d) == [i \in 1..Len(d) |-> d[i][1]]

HasKey(d, k) == \E i \in 1..Len(d) : d[i][1] = k

Get(d, k, default) ==
    IF HasKey(d, k) THEN d[CHOOSE i \in 1..Len(d) : d[i][1] = k][2]
    ELSE default

NoDup(s) == \A i, j \in 1..Len(s) : s[i] = s[j] => i = j

\* the key sequences of the inputs: no field, one field, or two in either order
KeySeqs == {s \in UNION {[1..n -> Fields] : n \in {0, 1, 2}} : NoDup(s)}

\* the value logged for a field in the n-th record: the field's name and
\* the record's number, so that no two cells of a file are alike; the values
\* of field b are strings that hold the delimiter
Digits == <<"1", "2", "3", "4", "5", "6", "7", "8", "9">>
Value(f, n) == IF f = <<"b">> THEN f \o <<COMMA, Digits[n]>> ELSE f \o <<Digits[n]>>

\* the inputs of the n-th record
TabularInputs(n) ==
    {[i \in 1..Len(ks) |-> <<ks[i], Value(ks[i], n)>>] : ks \in KeySeqs}

\* ------------------------------------------------------- python set order
\* A set iterates in hash-table order.  str hashes are salted per process;
\* StrHash is the slot a name lands in under a salt.  Names that collide
\* keep their insertion order, the others come in slot order.
Ord == ("a" :> 1) @@ ("b" :> 2) @@ ("c" :> 3)
StrHash(seed, f) == (Ord[f[1]] * seed) % 3

\* set.add on a set given in iteration order
SetAdd(seed, s, x) ==
    IF IsIn(x, s) THEN s
    ELSE LET before == SelectSeq(s, LAMBDA y : StrHash(seed, y) <= StrHash(seed, x))
             after == SelectSeq(s, LAMBDA y : StrHash(seed, y) > StrHash(seed, x))
         IN before \o <<x>> \o after

\* set(iterable) / set.update(iterable), elements added in iteration order
RECURSIVE SetUpdate(_, _, _)
SetUpdate(seed, s, xs) ==
    IF xs = <<>> THEN s
    ELSE SetUpdate(seed, SetAdd(seed, s, Head(xs)), Tail(xs))

SetOf(seed, xs) == SetUpdate(seed, <<>>, xs)

\* KeysMinus, had the members of s not been taken out
KeysMinus_All(seed, ks, s) ==
    SetOf(seed, ks)

\* keys() - set: the set of the keys, less the members of s
KeysMinus(seed, ks, s) ==
    SelectSeq(SetOf(seed, ks), LAMBDA k : ~IsIn(k, s))

\* ------------------------------------------------------------ csv writing
NeedsQuote(field) ==
    \E i \in 1..Len(field) : field[i] \in {COMMA, QUOTE, CR, LF}

RECURSIVE DoubleQuotes(_)
DoubleQuotes(field) ==
    IF field = <<>> THEN <<>>
    ELSE (IF Head(field) = QUOTE THEN <<QUOTE, QUOTE>> ELSE <<Head(field)>>)
         \o DoubleQuotes(Tail(field))

\* csv.writer with the excel dialect (QUOTE_MINIMAL)
WriteField(field) ==
    IF NeedsQuote(field) THEN <<QUOTE>> \o DoubleQuotes(field) \o <<QUOTE>>
    ELSE field

\* csv.writer.writerow: a lone empty field is written as ""
WriterWriterow(cells) ==
    (IF Len(cells) = 1 /\ cells[1] = <<>> THEN <<QUOTE, QUOTE>>
     ELSE Join(<<COMMA>>, [i \in 1..Len(cells) |-> WriteField(cells[i])]))
    \o <<CR, LF>>

\* DictWriterWriterow, had the row been written in the record's own order
DictWriterWriterow_RecordOrder(fieldnames, rowdict) ==
    WriterWriterow([i \in 1..Len(rowdict) |-> rowdict[i][2]])

\* csv.DictWriter.writerow with extrasaction='ignore' and restval=''
DictWriterWriterow(fieldnames, rowdict) ==
    WriterWriterow([i \in 1..Len(fieldnames) |-> Get(rowdict, fieldnames[i], <<>>)])

\* csv.DictWriter.writeheader
DictWriterWriteheader(fieldnames) ==
    WriterWriterow(fieldnames)

\* ------------------------------------------------------------ csv reading
\* the lines of a text, read with universal newlines
RECURSIVE SplitLines(_, _)
SplitLines(text, cur) ==
    IF text = <<>> THEN (IF cur = <<>> THEN <<>> ELSE <<cur>>)
    ELSE IF Head(text) = LF THEN <<cur>> \o SplitLines(Tail(text), <<>>)
    ELSE IF Head(text) = CR /\ Len(text) >= 2 /\ text[2] = LF
         THEN <<cur>> \o SplitLines(Tail(Tail(text)), <<>>)
    ELSE IF Head(text) = CR THEN <<cur>> \o SplitLines(Tail(text), <<>>)
    ELSE SplitLines(Tail(text), Append(cur, Head(text)))

Lines(text) == SplitLines(text, <<>>)

\* csv.reader on one line: the parser's states are START_FIELD, IN_FIELD,
\* IN_QUOTED_FIELD and QUOTE_IN_QUOTED_FIELD; an empty line is an empty row
RECURSIVE ParseFrom(_, _, _, _)
ParseFrom(line, state, cur, acc) ==
    IF line = <<>> THEN Append(acc, cur)
    ELSE LET c == Head(line)
             rest == Tail(line)
         IN CASE state = "START_FIELD" ->
                    IF c = QUOTE THEN ParseFrom(rest, "IN_QUOTED_FIELD", cur, acc)
                    ELSE IF c = COMMA THEN ParseFrom(rest, "START_FIELD", <<>>, Append(acc, cur))
                    ELSE ParseFrom(rest, "IN_FIELD", Append(cur, c), acc)
              [] state = "IN_FIELD" ->
                    IF c = COMMA THEN ParseFrom(rest, "START_FIELD", <<>>, Append(acc, cur))
                    ELSE ParseFrom(rest, "IN_FIELD", Append(cur, c), acc)
              [] state = "IN_QUOTED_FIELD" ->
                    IF c = QUOTE THEN ParseFrom(rest, "QUOTE_IN_QUOTED_FIELD", cur, acc)
                    ELSE ParseFrom(rest, "IN_QUOTED_FIELD", Append(cur, c), acc)
              [] state = "QUOTE_IN_QUOTED_FIELD" ->
                    IF c = QUOTE THEN ParseFrom(rest, "IN_QUOTED_FIELD", Append(cur, c), acc)
                    ELSE IF c = COMMA THEN ParseFrom(rest, "START_FIELD", <<>>, Append(acc, cur))
                    ELSE ParseFrom(rest, "IN_FIELD", Append(cur, c), acc)

ReaderRow(line) == IF line = <<>> THEN <<>> ELSE ParseFrom(line, "START_FIELD", <<>>, <<>>)

\* ------------------------------------------------------------- the writer
VARIABLES
    inconsistency_handling, \* self._inconsistency_handling
    hashseed,               \* the salt of this process's str hashes
    writer,                 \* self._writer: NoObject, or Object(its fieldnames)
    fieldnames,             \* self._fieldnames: NoObject, or Object(the set in iteration order)
    log_file,               \* the text of self._log_file
    closed,                 \* self._log_file.closed
    warned_once,            \* self._warned_once
    disabled,               \* self._disable_warnings
    emitted,                \* the messages passed to warnings.warn, in order
    marked,                 \* the keys given to data.mark by the last record() that took its datum
    raised,                 \* the exception the last call raised, or None
    calls,                  \* the TabularInputs given to record(), in order
    twin                    \* a second writer, given the same records and the
                            \* same close(), whose warnings are never disabled

vars == <<inconsistency_handling, hashseed, writer, fieldnames, log_file,
          closed, warned_once, disabled, emitted, marked, raised, calls, twin>>

\* the writer's fields as one record, the value the methods work on
Self ==
    [inconsistency_handling |-> inconsistency_handling,
     hashseed |-> hashseed,
     writer |-> writer,
     fieldnames |-> fieldnames,
     log_file |-> log_file,
     warned_once |-> warned_once,
     disabled |-> disabled,
     emitted |-> emitted,
     marked |-> marked,
     raised |-> raised]

\* CsvOutput.__init__
NewCsvOutput(implementation, seed) ==
    [inconsistency_handling |-> implementation,
     hashseed |-> seed,
     writer |-> NoObject,
     fieldnames |-> NoObject,
     log_file |-> <<>>,
     warned_once |-> {},
     disabled |-> FALSE,
     emitted |-> <<>>,
     marked |-> {},
     raised |-> None]

\* the text of the inconsistency warning: the two sets as str() prints them
WarningText(self, fieldnames_set, keys) ==
    [CsvOutput_keys |-> SetOf(self.hashseed, fieldnames_set),
     TabularInput_keys |-> SetOf(self.hashseed, keys)]

\* Warn, had it not looked the message up in the set
Warn_NoLookup(self, msg) ==
    [self EXCEPT
        !.emitted = IF ~self.disabled THEN Append(@, msg) ELSE @,
        !.warned_once = @ \cup {msg}]

\* CsvOutput._warn
Warn(self, msg) ==
    [self EXCEPT
        !.emitted = IF ~self.disabled /\ msg \notin self.warned_once
                    THEN Append(@, msg) ELSE @,
        !.warned_once = @ \cup {msg}]

\* FixedHeader, had the padded header not been cut to the length
FixedHeader_Uncut(fieldnames_ordered) ==
    LJust(Join(<<COMMA>>, fieldnames_ordered), header_length) \o <<CR, LF>>

\* the header line of the 'fixed_header_length' implementation
FixedHeader(fieldnames_ordered) ==
    Take(LJust(Join(<<COMMA>>, fieldnames_ordered), header_length), header_length)
    \o <<CR, LF>>

\* CommitSchema, had the writer been given the unordered set of the keys
CommitSchema_SetOrder(self, keys) ==
    IF self.writer # NoObject THEN self
    ELSE [self EXCEPT
            !.fieldnames = Object(SetOf(self.hashseed, keys)),
            !.writer = Object(SetOf(self.hashseed, keys)),
            !.log_file = @ \o (IF self.inconsistency_handling = "fixed_header_length"
                               THEN FixedHeader(SetOf(self.hashseed, keys))
                               ELSE DictWriterWriteheader(SetOf(self.hashseed, keys)))]

\* record(), lines 57-72: the first record with fields creates the writer
\* and writes the header
CommitSchema(self, keys) ==
    IF self.writer # NoObject THEN self
    ELSE [self EXCEPT
            !.fieldnames = Object(SetOf(self.hashseed, keys)),
            !.writer = Object(keys),
            !.log_file = @ \o (IF self.inconsistency_handling = "fixed_header_length"
                               THEN FixedHeader(keys)
                               ELSE DictWriterWriteheader(keys))]

\* OverwriteAtStart, had the text been put in front of the file's text
OverwriteAtStart_Insert(file, text) ==
    text \o file

\* seek(0); write(text); seek(0, 2)
OverwriteAtStart(file, text) ==
    text \o SubSeq(file, Len(text) + 1, Len(file))

\* ExtendSchema, had line 83 not tested the implementation
ExtendSchema_AnyImplementation(self, keys) ==
    LET fieldnames_new == KeysMinus(self.hashseed, keys, self.fieldnames[1])
        extended == self.writer[1] \o fieldnames_new
    IN IF fieldnames_new = <<>> THEN self
       ELSE [self EXCEPT
               !.fieldnames = Object(SetUpdate(self.hashseed, @[1], fieldnames_new)),
               !.writer = Object(extended),
               !.log_file = IF self.inconsistency_handling = "fixed_header_length"
                            THEN OverwriteAtStart(@, Take(Join(<<COMMA>>, extended), header_length))
                            ELSE @]

\* ExtendSchema, had the header been rewritten in place under 'copy' too
ExtendSchema_PatchesCopy(self, keys) ==
    LET fieldnames_new == KeysMinus(self.hashseed, keys, self.fieldnames[1])
        extended == self.writer[1] \o fieldnames_new
        header == Join(<<COMMA>>, extended)
    IN IF self.inconsistency_handling = None \/ fieldnames_new = <<>> THEN self
       ELSE [self EXCEPT
               !.fieldnames = Object(SetUpdate(self.hashseed, @[1], fieldnames_new)),
               !.writer = Object(extended),
               !.log_file = OverwriteAtStart(@, Take(header, header_length))]

\* ExtendSchema, had only the set of the field names been updated
ExtendSchema_SetOnly(self, keys) ==
    LET fieldnames_new == KeysMinus(self.hashseed, keys, self.fieldnames[1])
    IN IF self.inconsistency_handling = None \/ fieldnames_new = <<>> THEN self
       ELSE [self EXCEPT
               !.fieldnames = Object(SetUpdate(self.hashseed, @[1], fieldnames_new))]

\* record(), lines 83-99: new keys extend the set and the writer's
\* fieldnames; 'fixed_header_length' rewrites the header in place
ExtendSchema(self, keys) ==
    LET fieldnames_new == KeysMinus(self.hashseed, keys, self.fieldnames[1])
        extended == self.writer[1] \o fieldnames_new
        header == Join(<<COMMA>>, extended)
    IN IF self.inconsistency_handling = None \/ fieldnames_new = <<>> THEN self
       ELSE [self EXCEPT
               !.fieldnames = Object(SetUpdate(self.hashseed, @[1], fieldnames_new)),
               !.writer = Object(extended),
               !.log_file = IF self.inconsistency_handling = "fixed_header_length"
                            THEN OverwriteAtStart(@, Take(header, header_length))
                            ELSE @]

\* HandleInconsistency, had disabled warnings skipped the whole branch
HandleInconsistency_SkippedWhenDisabled(self, keys) ==
    IF Range(keys) = Range(self.fieldnames[1]) \/ self.disabled THEN self
    ELSE ExtendSchema(Warn(self, WarningText(self, self.fieldnames[1], keys)), keys)

\* HandleInconsistency, had the warning been made after the extension
HandleInconsistency_WarnAfterExtension(self, keys) ==
    IF Range(keys) = Range(self.fieldnames[1]) THEN self
    ELSE LET extended == ExtendSchema(self, keys)
         IN Warn(extended, WarningText(extended, extended.fieldnames[1], keys))

\* record(), lines 74-99
HandleInconsistency(self, keys) ==
    IF Range(keys) = Range(self.fieldnames[1]) THEN self
    ELSE ExtendSchema(Warn(self, WarningText(self, self.fieldnames[1], keys)), keys)

\* WriteRow, had the row held only the fields the record carries
WriteRow_Carried(self, to_csv) ==
    [self EXCEPT
        !.log_file = @ \o WriterWriterow(
            LET carried == SelectSeq(self.writer[1], LAMBDA k : HasKey(to_csv, k))
            IN [i \in 1..Len(carried) |-> Get(to_csv, carried[i], <<>>)]),
        !.marked = Range(Keys(to_csv))]

\* record(), lines 101-104
WriteRow(self, to_csv) ==
    [self EXCEPT
        !.log_file = @ \o DictWriterWriterow(self.writer[1], to_csv),
        !.marked = Range(Keys(to_csv))]

\* record, had a record without fields been skipped after the commit too
record_EmptyIsNoOp(self, to_csv) ==
    LET keys == Keys(to_csv)
        entered == [self EXCEPT !.marked = {}, !.raised = None]
        committed == CommitSchema(entered, keys)
        handled == HandleInconsistency(committed, keys)
    IN IF keys = <<>> THEN entered
       ELSE WriteRow(handled, to_csv)

\* CsvOutput.record for a TabularInput whose as_primitive_dict is to_csv
record(self, to_csv) ==
    LET keys == Keys(to_csv)
        entered == [self EXCEPT !.marked = {}, !.raised = None]
        committed == CommitSchema(entered, keys)
        handled == HandleInconsistency(committed, keys)
    IN IF keys = <<>> /\ self.writer = NoObject THEN entered
       ELSE WriteRow(handled, to_csv)

\* record_unacceptable, had the type been tested after a write of the datum
record_unacceptable_Written(self) ==
    [self EXCEPT !.raised = "ValueError",
                 !.log_file = @ \o <<"f", "o", "o">>]

\* CsvOutput.record for anything that is not a TabularInput
record_unacceptable(self) ==
    [self EXCEPT !.raised = "ValueError"]

\* close(), lines 118-130: the file is read back under the final
\* fieldnames and printed again, the first line as the header
RECURSIVE Rewrite(_, _, _)
Rewrite(lines, n, names) ==
    IF n > Len(lines) THEN <<>>
    ELSE LET row == ReaderRow(lines[n])
             values == [i \in 1..Len(names) |->
                           IF i <= Len(row) THEN row[i] ELSE <<>>]
             printed == IF row = <<>> THEN <<>>
                        ELSE IF n = 1 THEN Join(<<COMMA>>, names) \o <<LF>>
                        ELSE Join(<<COMMA>>, values) \o <<LF>>
         IN printed \o Rewrite(lines, n + 1, names)

\* CsvOutput.close
close(self) ==
    IF self.inconsistency_handling # "copy" THEN [self EXCEPT !.raised = None]
    ELSE IF self.writer = NoObject THEN [self EXCEPT !.raised = "AttributeError"]
    ELSE [self EXCEPT !.raised = None,
                      !.log_file = Rewrite(Lines(@), 1, self.writer[1])]

\* CsvOutput.disable_warnings
disable_warnings(self) == [self EXCEPT !.disabled = TRUE, !.raised = None]

\* ----------------------------------------------------------- the actions
Update(self) ==
    /\ inconsistency_handling' = self.inconsistency_handling
    /\ hashseed' = self.hashseed
    /\ writer' = self.writer
    /\ fieldnames' = self.fieldnames
    /\ log_file' = self.log_file
    /\ warned_once' = self.warned_once
    /\ disabled' = self.disabled
    /\ emitted' = self.emitted
    /\ marked' = self.marked
    /\ raised' = self.raised

Init ==
    /\ \E implementation \in Modes, seed \in HashSeeds :
          /\ inconsistency_handling = implementation
          /\ hashseed = seed
          /\ twin = NewCsvOutput(implementation, seed)
    /\ writer = NoObject
    /\ fieldnames = NoObject
    /\ log_file = <<>>
    /\ closed = FALSE
    /\ warned_once = {}
    /\ disabled = FALSE
    /\ emitted = <<>>
    /\ marked = {}
    /\ raised = None
    /\ calls = <<>>

Record ==
    /\ ~closed
    /\ Len(calls) < MaxCalls
    /\ \E to_csv \in TabularInputs(Len(calls) + 1) :
          /\ LET self == record(Self, to_csv) IN Update(self)
          /\ calls' = Append(calls, to_csv)
          /\ twin' = record(twin, to_csv)
    /\ UNCHANGED closed

RecordUnacceptable ==
    /\ ~closed
    /\ Update(record_unacceptable(Self))
    /\ UNCHANGED <<closed, calls, twin>>

DisableWarnings ==
    /\ ~closed
    /\ Update(disable_warnings(Self))
    /\ UNCHANGED <<closed, calls, twin>>

Close ==
    /\ ~closed
    /\ Update(close(Self))
    /\ closed' = TRUE
    /\ twin' = close(twin)
    /\ UNCHANGED calls

Next == Record \/ RecordUnacceptable \/ DisableWarnings \/ Close

Spec == Init /\ [][Next]_vars

\* ------------------------------------------------------------ the claims
\* the records that wrote a row: record() returns early on every record
\* without fields that comes before the first record with fields
RECURSIVE Written(_)
Written(cs) ==
    IF cs = <<>> THEN <<>>
    ELSE IF Head(cs) = <<>> THEN Written(Tail(cs))
    ELSE cs

Committed == writer # NoObject

FileLines == Lines(log_file)

\* the file as a csv reader gives it, line by line
FileRows == LET lines == Lines(log_file) IN [i \in 1..Len(lines) |-> ReaderRow(lines[i])]

\* the cells a record has under an ordered schema
RowOf(schema, to_csv) == [j \in 1..Len(schema) |-> Get(to_csv, schema[j], <<>>)]

\* the header line a fresh writer owes to a schema
HeaderFor(schema) ==
    IF inconsistency_handling = "fixed_header_length"
    THEN IF Len(Join(<<COMMA>>, schema)) >= header_length
         THEN SubSeq(Join(<<COMMA>>, schema), 1, header_length)
         ELSE Join(<<COMMA>>, schema) \o Spaces(header_length - Len(Join(<<COMMA>>, schema)))
    ELSE Join(<<COMMA>>, schema)

\* C1: zero-field records on a fresh writer are no-ops (nothing written,
\* nothing warned or remembered, no schema); the first record with fields
\* that follows them commits exactly its keys in its order, and the file
\* then holds one header for that schema and one row, with no warning.
C1_SchemaCommitment ==
    /\ (\A i \in 1..Len(calls) : calls[i] = <<>>) =>
          /\ writer = NoObject
          /\ fieldnames = NoObject
          /\ log_file = <<>>
          /\ warned_once = {}
          /\ emitted = <<>>
          /\ marked = {}
    /\ (~closed /\ Len(Written(calls)) = 1) =>
          LET R == Last(calls)
              lines == FileLines
          IN
          /\ writer = Object(Keys(R))
          /\ fieldnames # NoObject
          /\ Range(fieldnames[1]) = Range(Keys(R))
          /\ Len(fieldnames[1]) = Len(Keys(R))
          /\ Len(lines) = 2
          /\ lines[1] = HeaderFor(Keys(R))
          /\ ReaderRow(lines[2]) = [j \in 1..Len(R) |-> R[j][2]]
          /\ warned_once = {}
          /\ emitted = <<>>

C1_Witness ==
    /\ Len(calls) = 3
    /\ calls[1] = <<>>
    /\ calls[2] = <<>>
    /\ Len(calls[3]) = 2
    /\ Committed
    /\ ~closed

\* C2: N >= 1 records over one key set give N+1 lines, the header and one
\* row per record in write order; row i holds record i's values at the
\* positions of the committed order; the schema is the first record's; no
\* warning is emitted.
SameKeySet(cs) == \A i \in 1..Len(cs) : Range(Keys(cs[i])) = Range(Keys(cs[1]))

C2_StableSchemaRoundTrip ==
    LET recs == Written(calls) IN
    (~closed /\ recs # <<>> /\ SameKeySet(recs)) =>
        LET schema == Keys(recs[1])
            lines == FileLines
            rows == FileRows
        IN /\ writer = Object(schema)
           /\ Len(lines) = Len(recs) + 1
           /\ lines[1] = HeaderFor(schema)
           /\ \A i \in 1..Len(recs) :
                 /\ Len(rows[i + 1]) = Len(schema)
                 /\ \A j \in 1..Len(schema) :
                       rows[i + 1][j] = Get(recs[i], schema[j], <<>>)
           /\ emitted = <<>>
           /\ warned_once = {}

C2_Witness ==
    /\ Len(calls) = 3
    /\ Len(calls[1]) = 2
    /\ SameKeySet(calls)
    /\ Keys(calls[2]) # Keys(calls[1])
    /\ ~closed

\* the pair of sets a warning text speaks of
PairOf(msg) == <<Range(msg.CsvOutput_keys), Range(msg.TabularInput_keys)>>

\* C3 as stated: over the life of a writer, a warning for a given pair of
\* committed field set and incoming key set is emitted at most once.
C3_AtMostOncePerPair ==
    \A i, j \in 1..Len(emitted) : PairOf(emitted[i]) = PairOf(emitted[j]) => i = j

\* C3, amended: a warning with a given text is emitted at most once; every
\* emitted text is remembered, and while warnings are enabled every
\* remembered text has been emitted, so each text that occurs surfaces
\* exactly once; the same record repeated against an unchanged schema has
\* one text and so one warning.
C3_AtMostOncePerText ==
    /\ \A i, j \in 1..Len(emitted) : emitted[i] = emitted[j] => i = j
    /\ Range(emitted) \subseteq warned_once
    /\ ~disabled => warned_once = Range(emitted)
    /\ LET recs == Written(calls) IN
       (~disabled /\ Committed /\ writer = Object(Keys(recs[1]))) =>
          \A i \in 2..Len(recs) - 1 :
             (Keys(recs[i + 1]) = Keys(recs[i])
               /\ Range(Keys(recs[i])) # Range(writer[1]))
             => Cardinality({k \in 1..Len(emitted) :
                     emitted[k].TabularInput_keys = SetOf(hashseed, Keys(recs[i]))}) = 1

C3_Witness ==
    /\ ~disabled
    /\ inconsistency_handling = "copy"
    /\ Len(calls) = 3
    /\ Len(calls[1]) = 2
    /\ calls[1] # <<>>
    /\ Keys(calls[2]) = Keys(calls[3])
    /\ Range(Keys(calls[2])) # Range(Keys(calls[1]))
    /\ Len(emitted) = 1

\* C4: without an implementation the schema and the header stay those of
\* the first record with fields; every row has one cell per field of that
\* schema, the record's value where it carries the field and the empty
\* value where it does not; a field the first record did not have is in no
\* row and not in the header.
C4_ModeNone ==
    (inconsistency_handling = None /\ Committed) =>
        LET recs == Written(calls)
            schema == Keys(recs[1])
            rows == FileRows
        IN /\ writer = Object(schema)
           /\ Range(fieldnames[1]) = Range(schema)
           /\ Len(rows) = Len(recs) + 1
           /\ rows[1] = schema
           /\ \A i \in 1..Len(recs) : rows[i + 1] = RowOf(schema, recs[i])

C4_Witness ==
    /\ inconsistency_handling = None
    /\ Len(calls) = 3
    /\ Len(calls[1]) = 2
    /\ \E k \in Range(Keys(calls[2])) : k \notin Range(Keys(calls[1]))
    /\ \E k \in Range(Keys(calls[1])) : k \notin Range(Keys(calls[2]))
    /\ calls[3] = <<>>
    /\ closed

\* the position of a field in an ordered schema
IndexOf(schema, k) == CHOOSE j \in 1..Len(schema) : schema[j] = k

\* C5: in 'copy', after close() the header line is the comma-joined final
\* schema and every data row, read back, has exactly one value for every
\* field of the final schema: the record's value for a field it carried,
\* the empty string for one it did not.
C5_CopyRectangular ==
    (inconsistency_handling = "copy" /\ closed /\ Committed) =>
        LET recs == Written(calls)
            schema == writer[1]
            lines == FileLines
            rows == FileRows
        IN /\ Len(lines) = Len(recs) + 1
           /\ lines[1] = Join(<<COMMA>>, schema)
           /\ \A i \in 1..Len(recs) : rows[i + 1] = RowOf(schema, recs[i])

\* C6: in 'copy', the rewrite at close() keeps the rows in number and in
\* order, and every value a record carried is read back at the column of
\* its field under the final header.
C6_CopyPreservesData ==
    (inconsistency_handling = "copy" /\ closed /\ Committed) =>
        LET recs == Written(calls)
            rows == FileRows
            schema == rows[1]
        IN /\ Len(rows) = Len(recs) + 1
           /\ \A i \in 1..Len(recs) :
                 \A n \in 1..Len(recs[i]) :
                    /\ IsIn(recs[i][n][1], schema)
                    /\ IndexOf(schema, recs[i][n][1]) <= Len(rows[i + 1])
                    /\ rows[i + 1][IndexOf(schema, recs[i][n][1])] = recs[i][n][2]

C8_Step ==
    (inconsistency_handling = "fixed_header_length" /\ Committed) =>
        LET n == Len(log_file)
            appended == SubSeq(log_file', n + 1, Len(log_file'))
        IN /\ Len(log_file') >= n
           /\ SubSeq(log_file', header_length + 1, n) = SubSeq(log_file, header_length + 1, n)
           /\ calls' # calls =>
                 /\ Len(Lines(appended)) = 1
                 /\ appended[Len(appended)] = LF
                 /\ ReaderRow(Lines(appended)[1]) = RowOf(writer'[1], Last(calls'))
           /\ calls' = calls => log_file' = log_file

C8_FixedHeaderPatchesOnlyHeader == [][C8_Step]_vars

C8_Witness ==
    /\ inconsistency_handling = "fixed_header_length"
    /\ closed
    /\ Len(Written(calls)) = 3
    /\ Len(writer[1]) = 3
    /\ Len(Written(calls)[1]) = 1
    /\ Len(Written(calls)[2]) = 2

\* C9: record() with an argument that is not a TabularInput raises the
\* ValueError and leaves the writer as it was: the file, the schema, the
\* remembered and the emitted warnings are unchanged and nothing is marked.
C9_Step ==
    raised' = "ValueError" =>
        UNCHANGED <<inconsistency_handling, writer, fieldnames, log_file,
                    closed, warned_once, disabled, emitted, marked, calls>>

C9_RejectsWrongInput == [][C9_Step]_vars

C9_Witness ==
    /\ raised = "ValueError"
    /\ Committed
    /\ warned_once # {}
    /\ Len(calls) >= 2

\* C10: once disable_warnings() has been called no record() emits a
\* warning, and every call leaves the file, the schema and the field set
\* as it leaves them on the writer whose warnings are enabled.
C10_Step ==
    /\ disabled => emitted' = emitted
    /\ ~twin'.disabled
    /\ <<log_file', writer', fieldnames'>> = <<twin'.log_file, twin'.writer, twin'.fieldnames>>

C10_DisableWarnings == [][C10_Step]_vars

C10_Witness ==
    /\ disabled
    /\ emitted = <<>>
    /\ warned_once # {}
    /\ inconsistency_handling = "fixed_header_length"
    /\ Committed
    /\ Len(writer[1]) > Len(Written(calls)[1])

ExtensionModes == {"copy", "fixed_header_length"}

\* C11: a record() that writes a row marks exactly the fields of the record
\* that are in the schema as the call leaves it; a field of the record that
\* is not in the schema is not marked.
C11_ConsumedMarking ==
    (Committed /\ calls # <<>>) =>
        marked = Range(Keys(Last(calls))) \cap Range(writer[1])

\* C12: once committed, the ordered schema only grows by appending: every
\* call leaves a schema of which the one before is a prefix, without a
\* duplicate; it changes only under 'copy' or 'fixed_header_length' and only
\* on a record() that carries a field the schema does not have.
C12_Step ==
    Committed =>
        /\ writer' # NoObject
        /\ Len(writer'[1]) >= Len(writer[1])
        /\ SubSeq(writer'[1], 1, Len(writer[1])) = writer[1]
        /\ NoDup(writer'[1])
        /\ writer' # writer =>
              /\ inconsistency_handling \in ExtensionModes
              /\ calls' # calls
              /\ \E k \in Range(Keys(Last(calls'))) : ~IsIn(k, writer[1])
              /\ Range(writer'[1]) = Range(writer[1]) \cup Range(Keys(Last(calls')))

C12_SchemaMonotonic == [][C12_Step]_vars

C12_Witness ==
    /\ inconsistency_handling \in ExtensionModes
    /\ Len(calls) = 3
    /\ Len(calls[1]) = 1
    /\ Len(writer[1]) = 3
    /\ Keys(calls[3]) = Keys(calls[1])

\* the fields of the records in the order of their first appearance
RECURSIVE FirstAppearance(_, _)
FirstAppearance(recs, seen) ==
    IF recs = <<>> THEN seen
    ELSE FirstAppearance(Tail(recs),
            seen \o SelectSeq(Keys(Head(recs)), LAMBDA k : ~IsIn(k, seen)))

\* C13: under 'copy' or 'fixed_header_length' the new fields of a record are
\* appended to the schema in the order of their first appearance in the
\* record, so the schema is the fields of the records in the order of first
\* appearance, whatever the process.
C13_ExtensionOrder ==
    (inconsistency_handling \in ExtensionModes /\ Committed) =>
        writer[1] = FirstAppearance(Written(calls), <<>>)

\* the last line of a text that ends with a line terminator
LastLine(text) ==
    LET n == IF Len(text) >= 2 /\ text[Len(text) - 1] = CR
             THEN Len(text) - 2 ELSE Len(text) - 1
        ends == {i \in 1..n : text[i] = LF}
        start == IF ends = {} THEN 1
                 ELSE (CHOOSE i \in ends : \A j \in ends : i >= j) + 1
    IN SubSeq(text, start, n)

\* C14: under 'copy' or 'fixed_header_length', after a record() that wrote a
\* row every field of the record is in the schema, and the row just written,
\* the last line of the file, has one value per field of the schema as the
\* call left it: the record's value for a field it carries, the empty string
\* for one it lacks; the cut of the fixed header does not matter.
C14_NoFieldDropped ==
    (inconsistency_handling \in ExtensionModes /\ Committed /\ ~closed) =>
        LET R == Last(calls)
            row == ReaderRow(LastLine(log_file))
        IN /\ Range(Keys(R)) \subseteq Range(writer[1])
           /\ Last(log_file) = LF
           /\ Len(row) = Len(writer[1])
           /\ \A j \in 1..Len(writer[1]) :
                 row[j] = IF HasKey(R, writer[1][j])
                          THEN Get(R, writer[1][j], <<>>) ELSE <<>>

C14_Witness ==
    /\ inconsistency_handling = "fixed_header_length"
    /\ Committed
    /\ ~closed
    /\ Len(calls) = 3
    /\ Len(writer[1]) = 3
    /\ Len(Join(<<COMMA>>, writer[1])) > header_length
    /\ Len(calls[3]) = 1
    /\ Keys(calls[3]) = <<writer[1][3]>>

\* the first line of a text
FirstLine(text) ==
    LET ends == {i \in 1..Len(text) : text[i] \in {CR, LF}}
    IN IF ends = {} THEN text
       ELSE SubSeq(text, 1, (CHOOSE i \in ends : \A j \in ends : i <= j) - 1)

\* C15: under 'copy', until close() the first line of the file is the
\* comma-joined schema of the first record with fields, also when the
\* schema in memory has grown; no call but close() changes it.
C15_Step ==
    (inconsistency_handling = "copy" /\ Committed) =>
        LET header == FirstLine(log_file)
            header_after == FirstLine(log_file')
        IN /\ ~closed => header = Join(<<COMMA>>, Keys(Written(calls)[1]))
           /\ ~closed' => header_after = header
           /\ (closed' /\ ~closed) => header_after = Join(<<COMMA>>, writer[1])

C15_CopyHeaderStale == [][C15_Step]_vars

C15_Witness ==
    /\ inconsistency_handling = "copy"
    /\ Committed
    /\ ~closed
    /\ Len(calls) = 3
    /\ Len(writer[1]) = 3
    /\ Len(Written(calls)[1]) = 1
    /\ FirstLine(log_file) = writer[1][1]

\* what _warn does with a message m: it is remembered, and it is emitted if
\* warnings are enabled and it was not remembered before
WarnedWith(m) ==
    /\ warned_once' = warned_once \cup {m}
    /\ emitted' = IF ~disabled /\ m \notin warned_once THEN Append(emitted, m) ELSE emitted

\* C16: a record() whose key set differs from the committed field set warns
\* with a message that names the field set as it was before the call and
\* the key set of the record, also when the call extends the schema; a
\* record() whose key set equals the field set (the committing call
\* included) warns of nothing and extends nothing.
C16_Step ==
    calls' # calls =>
        LET keys == Keys(Last(calls'))
        IN IF Committed /\ Range(keys) # Range(fieldnames[1])
           THEN \E m \in warned_once' :
                   /\ Range(m.CsvOutput_keys) = Range(fieldnames[1])
                   /\ Len(m.CsvOutput_keys) = Len(fieldnames[1])
                   /\ Range(m.TabularInput_keys) = Range(keys)
                   /\ Len(m.TabularInput_keys) = Len(keys)
                   /\ WarnedWith(m)
           ELSE /\ warned_once' = warned_once
                /\ emitted' = emitted
                /\ Committed => (writer' = writer /\ fieldnames' = fieldnames)

C16_WarningNamesPriorSchema == [][C16_Step]_vars

C16_Witness ==
    /\ inconsistency_handling \in ExtensionModes
    /\ Committed
    /\ Len(calls) = 2
    /\ Len(calls[1]) = 1
    /\ Len(writer[1]) = 3
    /\ Len(emitted) = 1
    /\ emitted[1].CsvOutput_keys = <<Keys(calls[1])[1]>>

\* C17: close() raises nothing, whatever was recorded before, and under
\* 'copy' with no schema committed it leaves the empty file empty.
C17_CloseSucceeds ==
    closed =>
        /\ raised = None
        /\ (inconsistency_handling = "copy" /\ ~Committed) => log_file = <<>>

\* C18: once committed, the set of the field names and the writer's ordered
\* field names have the same members, and neither holds a name twice.
C18_SetAndListInStep ==
    /\ (writer = NoObject) <=> (fieldnames = NoObject)
    /\ Committed =>
          /\ Range(fieldnames[1]) = Range(writer[1])
          /\ NoDup(writer[1])
          /\ NoDup(fieldnames[1])

C18_Witness ==
    /\ Committed
    /\ inconsistency_handling \in ExtensionModes
    /\ Len(calls) = 3
    /\ Len(calls[1]) = 1
    /\ Len(calls[2]) = 2
    /\ Len(writer[1]) = 3
    /\ writer[1] # fieldnames[1]

\* C19: once a schema is committed, a record() without fields warns as an
\* inconsistent record (once per text, and silently when warnings are
\* disabled), leaves the schema and what the file held as they were, and
\* appends one row with an empty value for every field of the schema.
C19_Step ==
    (Committed /\ calls' # calls /\ Last(calls') = <<>>) =>
        LET appended == SubSeq(log_file', Len(log_file) + 1, Len(log_file'))
        IN /\ \E m \in warned_once' :
                 /\ PairOf(m) = <<Range(fieldnames[1]), {}>>
                 /\ WarnedWith(m)
           /\ writer' = writer
           /\ fieldnames' = fieldnames
           /\ SubSeq(log_file', 1, Len(log_file)) = log_file
           /\ Len(Lines(appended)) = 1
           /\ Last(appended) = LF
           /\ ReaderRow(Lines(appended)[1]) = [j \in 1..Len(writer[1]) |-> <<>>]
           /\ marked' = {}

C19_ZeroFieldAfterCommit == [][C19_Step]_vars

C19_Witness ==
    /\ Committed
    /\ Len(calls) = 3
    /\ calls[1] = <<>>
    /\ calls[3] = <<>>
    /\ Len(writer[1]) = 2
    /\ Len(emitted) = 1
    /\ ~closed

====
